---------------------------- MODULE Spec2Model ----------------------------
(***************************************************************************)
(* Model of onnxruntime/contrib_ops/cuda/bert/attention_impl.cu: the fused *)
(* multi-head self-attention forward pass (workspace sizing, the QKV and   *)
(* context transposes, the masked softmax and the qkvToCtx driver).        *)
(*                                                                         *)
(* Seven specifications share the module:                                  *)
(*   SpecSize     scratchSize / getAttentionWorkspaceSize and the carving  *)
(*                of the workspace, in machine arithmetic;                 *)
(*   SpecSoftmax  computeMaskedSoftmax, one block of the launch observed;  *)
(*   SpecStrategy softmaxSmall and softmax on the same score row;          *)
(*   SpecTrans    launchTransQkv / launchTransCtx, one task per thread;    *)
(*   Spec         launchAttentionKernel / qkvToCtx, the five-stage driver  *)
(*                and the cuBLAS handle, from any state of the handle;     *)
(*   SpecStages   the same driver from one state of the handle, with the   *)
(*                elements each stage reads and writes;                    *)
(*   SpecBlock    the threads of one softmax block, interleaved.           *)
(***************************************************************************)
EXTENDS Integers, Sequences, FiniteSets, TLC

VARIABLES
    \* ---- SpecSize: one caller of the sizing functions
    sz_args,      \* [element_size, batch_size, num_heads, head_size, sequence_length]
    sz_build,     \* what the build makes of a signed int overflow
    sz_pc,        \* position of the caller
    sz_scratch,   \* last result of scratchSize
    sz_ws,        \* last result of getAttentionWorkspaceSize
    sz_carve,     \* scratch1/2/3 and q/k/v as qkvToCtx carves them
    sz_prev,      \* arguments and result of the previous call
    \* ---- SpecSoftmax: one launch of computeMaskedSoftmax, one block observed
    sm_args,      \* [sequence_length, batch_size, num_heads, mask_index, input]
    sm_block,     \* blockIdx of the block observed
    sm_pc,        \* "start", "launched", "done"
    sm_kernel,    \* the kernel and block width the launch selected
    sm_out,       \* the output row of the block observed
    \* ---- SpecStrategy: the two device functions on one score row
    st_row,       \* [ld, last_valid, input, blockIdx, gridDimX]
    st_small,     \* softmaxSmall's block width and output row
    st_general,   \* softmax's block width and output row
    \* ---- SpecTrans: the two transposes, each launched once
    tr_args,      \* [T, sequence_length, batch_size, head_size, num_heads]
    tr_qkv,       \* the element copies of launchTransQkv's tasks
    tr_ctx,       \* the element copies of launchTransCtx's tasks
    \* ---- Spec, SpecStages: one call of launchAttentionKernel
    p_args,       \* [element_size, batch_size, sequence_length, num_heads, head_size, mask_index]
    p_pc,         \* position in launchAttentionKernel / qkvToCtx
    p_locals,     \* qkvToCtx's locals: element offsets into the workspace
    p_cublas,     \* the cuBLAS handle: [pointer_mode, math_mode, stream]
    p_entry,      \* the handle as it was when the call was entered
    p_helper,     \* CublasConfigHelper's members, once constructed
    p_calls,      \* the stages qkvToCtx has issued, in program order
    p_failed,     \* the first stage the device or the library rejected
    p_status,     \* the value qkvToCtx returned
    p_observed,   \* what the caller of launchAttentionKernel is handed
    \* ---- SpecBlock: the threads of one softmax block, interleaved
    k_cfg,        \* [kernel, TPB, ld, mask]: the kernel, its width, the row, the mask value
    k_pc,         \* each thread's position in the kernel
    k_i,          \* each thread's loop index i
    k_lv,         \* each thread's copy of last_valid, the argument of softmax(Small)
    k_shared,     \* the __shared__ scalars last_valid and reverse_z, <<>> until written
    k_writers,    \* the threads that wrote each shared scalar
    k_early,      \* the reads of a shared scalar made before it was written
    k_arrived,    \* the threads that reached each __syncthreads()
    k_tmp,        \* the threads whose thread_data BlockReduce has taken in
    k_z,          \* thread 0's z: the threads whose data it sums, <<>> until reduced
    k_rz,         \* the threads that read reverse_z
    k_out         \* per column of the row, the writes made: <<thread, ..>>

sizeVars == <<sz_args, sz_build, sz_pc, sz_scratch, sz_ws, sz_carve, sz_prev>>

softmaxVars == <<sm_args, sm_block, sm_pc, sm_kernel, sm_out>>

strategyVars == <<st_row, st_small, st_general>>

transVars == <<tr_args, tr_qkv, tr_ctx>>

driverVars ==
    <<p_args, p_pc, p_locals, p_cublas, p_entry, p_helper, p_calls, p_failed,
      p_status, p_observed>>

blockVars ==
    <<k_cfg, k_pc, k_i, k_lv, k_shared, k_writers, k_early, k_arrived, k_tmp, k_z,
      k_rz, k_out>>

vars == <<sizeVars, softmaxVars, strategyVars, transVars, driverVars, blockVars>>

\* no result yet: the empty word
None == <<>>

(***************************************************************************)
(* Machine arithmetic.  TLC's integers are 32 bit, so a machine word is a  *)
(* little-endian sequence of bytes: an operation on words of n bytes is    *)
(* exact modulo 2^(8n).  size_t is SizeTBytes wide, int is IntBytes wide   *)
(* and is carried sign-extended to SizeTBytes.  The mathematical values    *)
(* the sizes are compared with are words of MathBytes bytes, wide enough   *)
(* never to wrap for the dimensions drawn.                                 *)
(***************************************************************************)
SizeTBytes == 8
IntBytes == 4
MathBytes == 12

RECURSIVE Word(_, _)
\* the word of n bytes holding the natural v (v < 2^31)
Word(v, n) == IF n = 0 THEN <<>> ELSE <<v % 256>> \o Word(v \div 256, n - 1)

RECURSIVE Resize(_, _)
\* zero-extension or truncation of a word to n bytes
Resize(a, n) ==
    IF n <= Len(a) THEN SubSeq(a, 1, n) ELSE Resize(a \o <<0>>, n)

RECURSIVE AddFrom(_, _, _, _)
AddFrom(a, b, i, carry) ==
    IF i > Len(a) THEN <<>>
    ELSE LET s == a[i] + b[i] + carry
         IN  <<s % 256>> \o AddFrom(a, b, i + 1, s \div 256)

\* a + b modulo 2^(8 Len(a))
WAdd(a, b) == AddFrom(a, b, 1, 0)

RECURSIVE ColSum(_, _, _, _)
ColSum(a, b, k, i) ==
    IF i > k THEN 0 ELSE a[i] * b[k + 1 - i] + ColSum(a, b, k, i + 1)

RECURSIVE MulFrom(_, _, _, _)
MulFrom(a, b, k, carry) ==
    IF k > Len(a) THEN <<>>
    ELSE LET s == ColSum(a, b, k, 1) + carry
         IN  <<s % 256>> \o MulFrom(a, b, k + 1, s \div 256)

\* a * b modulo 2^(8 Len(a))
WMul(a, b) == MulFrom(a, b, 1, 0)

RECURSIVE DivFrom(_, _, _, _)
DivFrom(a, d, i, rem) ==
    IF i = 0 THEN <<>>
    ELSE LET cur == rem * 256 + a[i]
         IN  DivFrom(a, d, i - 1, cur % d) \o <<cur \div d>>

\* a / d for a small divisor d (unsigned division, truncating)
WDiv(a, d) == DivFrom(a, d, Len(a), 0)

RECURSIVE WLessFrom(_, _, _)
WLessFrom(a, b, i) ==
    IF i = 0 THEN FALSE
    ELSE IF a[i] # b[i] THEN a[i] < b[i]
    ELSE WLessFrom(a, b, i - 1)

\* unsigned comparison of two words of the same width
WLess(a, b) == WLessFrom(a, b, Len(a))

WLeq(a, b) == ~WLess(b, a)

WZero(a) == \A i \in 1..Len(a) : a[i] = 0

\* an int held in a size_t-wide word: the low IntBytes bytes, sign-extended
SignExtend(a) ==
    SubSeq(a, 1, IntBytes)
        \o (IF a[IntBytes] >= 128 THEN <<255, 255, 255, 255>> ELSE <<0, 0, 0, 0>>)

\* does the (sign-extended) int a hold a negative value
IntNegative(a) == a[IntBytes] >= 128

Builds == {"wrap32", "wide"}

\* int * int.  A product that does not fit an int is undefined behaviour:
\* a build either keeps the low 32 bits ("wrap32", a 32-bit imul followed by
\* a sign extension) or evaluates the product in the 64-bit register it is
\* widened to anyway ("wide").  The two agree whenever the product fits.
IntMul(a, b, build) ==
    IF build = "wrap32" THEN SignExtend(WMul(a, b)) ELSE WMul(a, b)

\* an int argument (0 <= v < 2^31) as a size_t-wide word
IntArg(v) == Word(v, SizeTBytes)

(***************************************************************************)
(* Workspace sizing (attention_impl.cu, lines 37-53).                      *)
(***************************************************************************)
alignment == 256

\* CeilDiv of core/providers/cuda/shared_inc: (a + b - 1) / b in size_t
CeilDiv(a, b) == WDiv(WAdd(a, Word(b - 1, SizeTBytes)), b)

alignTo(a, b) == WMul(CeilDiv(a, b), Word(b, SizeTBytes))

\* len is an int product, widened to size_t only when it is stored
scratchLen(batch_size, num_heads, sequence_length, build) ==
    IntMul(IntMul(IntMul(IntArg(batch_size), IntArg(num_heads), build),
                  IntArg(sequence_length), build),
           IntArg(sequence_length), build)

scratchSize(element_size, batch_size, num_heads, sequence_length, build) ==
    LET len == scratchLen(batch_size, num_heads, sequence_length, build)
        bytes == WMul(len, Word(element_size, SizeTBytes))
        bytesAligned == alignTo(bytes, alignment)
    IN  bytesAligned

\* 3 * batch_size * sequence_length * num_heads * head_size associates to
\* the left in int; only the last factor, element_size, is a size_t
qkvLen(batch_size, num_heads, head_size, sequence_length, build) ==
    IntMul(IntMul(IntMul(IntMul(IntArg(3), IntArg(batch_size), build),
                         IntArg(sequence_length), build),
                  IntArg(num_heads), build),
           IntArg(head_size), build)

getAttentionWorkspaceSize(element_size, batch_size, num_heads, head_size, sequence_length, build) ==
    LET qkv_size == WMul(qkvLen(batch_size, num_heads, head_size,
                                sequence_length, build),
                         Word(element_size, SizeTBytes))
    IN  WAdd(qkv_size,
             WMul(Word(2, SizeTBytes),
                  scratchSize(element_size, batch_size, num_heads,
                              sequence_length, build)))

(***************************************************************************)
(* The carving of the workspace by qkvToCtx (lines 339-355).  Pointers are *)
(* byte offsets from the workspace pointer: T* + n advances by             *)
(* n * element_size bytes, in size_t arithmetic.                           *)
(***************************************************************************)
PtrAdd(p, n, element_size) == WAdd(p, WMul(n, Word(element_size, SizeTBytes)))

carveWorkspace(element_size, batch_size, num_heads, head_size, sequence_length, build) ==
    LET bytes == scratchSize(element_size, batch_size, num_heads,
                             sequence_length, build)
        scratch1 == Word(0, SizeTBytes)
        scratch2 == PtrAdd(scratch1, WDiv(bytes, element_size), element_size)
        scratch3 == PtrAdd(scratch2, WDiv(bytes, element_size), element_size)
        batches == IntMul(IntArg(batch_size), IntArg(num_heads), build)
        size_per_batch == IntMul(IntArg(sequence_length), IntArg(head_size), build)
        total_size == IntMul(batches, size_per_batch, build)
        q == scratch3
        k == PtrAdd(q, total_size, element_size)
        v == PtrAdd(k, total_size, element_size)
    IN  [bytes |-> bytes, scratch1 |-> scratch1, scratch2 |-> scratch2,
         scratch3 |-> scratch3, q |-> q, k |-> k, v |-> v,
         total_size |-> total_size]

(***************************************************************************)
(* SpecSize: a caller draws the arguments, calls scratchSize and           *)
(* getAttentionWorkspaceSize, lets qkvToCtx carve the workspace, and then  *)
(* calls again with exactly one dimension increased.                       *)
(***************************************************************************)
ElementSizes == {2, 4}

\* dimensions drawn: small ones, and sequence lengths whose square or whose
\* product with 3 * 32768 leaves int
SmallDims == {0, 1, 3}

LongSequences == {32768, 65536}

DimValues(d) ==
    IF d = "sequence_length" THEN {0, 1} \cup LongSequences ELSE SmallDims

DimNames == {"batch_size", "num_heads", "head_size", "sequence_length"}

SizeArgs ==
    [element_size : ElementSizes, batch_size : DimValues("batch_size"),
     num_heads : DimValues("num_heads"), head_size : DimValues("head_size"),
     sequence_length : DimValues("sequence_length")]

InitSize ==
    /\ sz_args \in SizeArgs
    /\ sz_build \in Builds
    /\ sz_pc = "start"
    /\ sz_scratch = None
    /\ sz_ws = None
    /\ sz_carve = None
    /\ sz_prev = None
    /\ sm_args = None /\ sm_block = None /\ sm_pc = None /\ sm_kernel = None
    /\ sm_out = None
    /\ st_row = None /\ st_small = None /\ st_general = None
    /\ tr_args = None /\ tr_qkv = None /\ tr_ctx = None
    /\ p_args = None /\ p_pc = None /\ p_locals = None /\ p_cublas = None
    /\ p_entry = None
    /\ p_helper = None /\ p_calls = None /\ p_failed = None /\ p_status = None
    /\ p_observed = None
    /\ k_cfg = None /\ k_pc = None /\ k_i = None /\ k_lv = None /\ k_shared = None
    /\ k_writers = None /\ k_early = None /\ k_arrived = None /\ k_tmp = None
    /\ k_z = None /\ k_rz = None /\ k_out = None

CallScratchSize ==
    /\ sz_pc = "start"
    /\ sz_scratch' = scratchSize(sz_args.element_size, sz_args.batch_size,
                                 sz_args.num_heads, sz_args.sequence_length,
                                 sz_build)
    /\ sz_pc' = "sized"
    /\ UNCHANGED <<sz_args, sz_build, sz_ws, sz_carve, sz_prev>>
    /\ UNCHANGED <<softmaxVars, strategyVars, transVars, driverVars, blockVars>>

CallGetAttentionWorkspaceSize ==
    /\ sz_pc = "sized"
    /\ sz_ws' = getAttentionWorkspaceSize(sz_args.element_size, sz_args.batch_size,
                                          sz_args.num_heads, sz_args.head_size,
                                          sz_args.sequence_length, sz_build)
    /\ sz_pc' = "allocated"
    /\ UNCHANGED <<sz_args, sz_build, sz_scratch, sz_carve, sz_prev>>
    /\ UNCHANGED <<softmaxVars, strategyVars, transVars, driverVars, blockVars>>

\* qkvToCtx is entered with positive dimensions only
CarveWorkspace ==
    /\ sz_pc = "allocated"
    /\ \A d \in DimNames : sz_args[d] > 0
    /\ sz_carve' = <<carveWorkspace(sz_args.element_size, sz_args.batch_size,
                                    sz_args.num_heads, sz_args.head_size,
                                    sz_args.sequence_length, sz_build)>>
    /\ sz_pc' = "carved"
    /\ UNCHANGED <<sz_args, sz_build, sz_scratch, sz_ws, sz_prev>>
    /\ UNCHANGED <<softmaxVars, strategyVars, transVars, driverVars, blockVars>>

CallAgain(d, v) ==
    /\ sz_pc = "allocated"
    /\ sz_prev = None
    /\ v > sz_args[d]
    /\ sz_prev' = <<[args |-> sz_args, ws |-> sz_ws]>>
    /\ sz_args' = [sz_args EXCEPT ![d] = v]
    /\ sz_pc' = "start"
    /\ sz_scratch' = None
    /\ sz_ws' = None
    /\ sz_carve' = None
    /\ UNCHANGED sz_build
    /\ UNCHANGED <<softmaxVars, strategyVars, transVars, driverVars, blockVars>>

NextSize ==
    \/ CallScratchSize
    \/ CallGetAttentionWorkspaceSize
    \/ CarveWorkspace
    \/ \E d \in DimNames : \E v \in DimValues(d) : CallAgain(d, v)

(***************************************************************************)
(* The sizes as the specification states them, in exact arithmetic.        *)
(***************************************************************************)
M(v) == Word(v, MathBytes)

MathWide(w) == Resize(w, MathBytes)

RoundUp256(x) == WMul(WDiv(WAdd(x, M(255)), 256), M(256))

\* B * N * S * S * elemSize
MathScratchBytes(a) ==
    WMul(WMul(WMul(WMul(M(a.batch_size), M(a.num_heads)), M(a.sequence_length)),
              M(a.sequence_length)), M(a.element_size))

\* B * S * N * H * elemSize
MathBlockBytes(a) ==
    WMul(WMul(WMul(WMul(M(a.batch_size), M(a.sequence_length)), M(a.num_heads)),
              M(a.head_size)), M(a.element_size))

\* every int product of the sizing fits an int (is below 2^31)
IntProductsFit(a) ==
    /\ WLess(WDiv(MathScratchBytes(a), a.element_size), MathWide(<<0, 0, 0, 128>>))
    /\ WLess(WMul(M(3), WDiv(MathBlockBytes(a), a.element_size)),
             MathWide(<<0, 0, 0, 128>>))

\* C1: for every element size in {2, 4} and all non-negative dimensions,
\* scratchSize returns B*N*S*S*elemSize rounded up to the next multiple of
\* 256 and getAttentionWorkspaceSize returns 3*B*S*N*H*elemSize plus twice
\* that scratch size.
C1_SizesAsSpecified ==
    /\ sz_scratch # None =>
          MathWide(sz_scratch) = RoundUp256(MathScratchBytes(sz_args))
    /\ sz_ws # None =>
          MathWide(sz_ws) =
              WAdd(WMul(M(3), MathBlockBytes(sz_args)),
                   WMul(M(2), RoundUp256(MathScratchBytes(sz_args))))

\* C1, where no int product overflows: the sizes are the specified ones.
C1_SizesWhenIntFits ==
    IntProductsFit(sz_args) => C1_SizesAsSpecified

C1_Witness ==
    /\ sz_ws # None
    /\ IntProductsFit(sz_args)
    /\ ~WZero(sz_ws)

\* C2: getAttentionWorkspaceSize is monotonic non-decreasing in each
\* dimension argument: a second call with exactly one dimension increased
\* never returns fewer bytes than the first, 32-bit int products included.
C2_WorkspaceMonotonic ==
    (sz_prev # None /\ sz_ws # None) => WLeq(sz_prev[1].ws, sz_ws)

\* C9: the three regions qkvToCtx carves are pairwise disjoint and inside the
\* first getAttentionWorkspaceSize bytes: scratch1 and scratch2 span
\* scratchSize bytes each, at least B*N*S*S elements; scratch3 starts at byte
\* 2*scratchSize and holds Q, K, V as three consecutive B*N*S*H blocks.
C9_RegionsDisjointInsideWorkspace ==
    sz_pc = "carved" =>
        LET c == sz_carve[1]
            bytes == MathWide(c.bytes)
            block == MathBlockBytes(sz_args)
        IN  /\ WLeq(MathScratchBytes(sz_args), bytes)
            /\ MathWide(c.scratch1) = M(0)
            /\ MathWide(c.scratch2) = bytes
            /\ MathWide(c.scratch3) = WMul(M(2), bytes)
            /\ MathWide(c.q) = MathWide(c.scratch3)
            /\ MathWide(c.k) = WAdd(MathWide(c.q), block)
            /\ MathWide(c.v) = WAdd(MathWide(c.k), block)
            /\ WLeq(WAdd(MathWide(c.v), block), MathWide(sz_ws))

\* C9, where no int product overflows.
C9_RegionsWhenIntFits ==
    IntProductsFit(sz_args) => C9_RegionsDisjointInsideWorkspace

(***************************************************************************)
(* Floating point.  A float is NaN, +Inf or a non-negative rational        *)
(* <<numerator, denominator>> in lowest terms; the special values follow   *)
(* IEEE 754 (1/0 = +Inf, 0 * Inf = NaN, x + Inf = Inf).  Rounding is not   *)
(* modelled: finite results are exact.  Scores are multiples of ln 2, so   *)
(* that expf(score) is the power of two 2^score, which leaves the float    *)
(* range below 2^ExpUnderflow (expf returns 0) and from 2^ExpOverflow on   *)
(* (expf returns +Inf).                                                    *)
(***************************************************************************)
NaN == <<0, 0>>

Inf == <<1, 0>>

Zero == <<0, 1>>

\* an output element no thread has written
Unwritten == <<-1, -1>>

RECURSIVE GCD(_, _)
GCD(a, b) == IF b = 0 THEN a ELSE GCD(b, a % b)

Frac(n, d) == <<n \div GCD(n, d), d \div GCD(n, d)>>

FAdd(x, y) ==
    IF x = NaN \/ y = NaN THEN NaN
    ELSE IF x = Inf \/ y = Inf THEN Inf
    ELSE Frac(x[1] * y[2] + y[1] * x[2], x[2] * y[2])

FMul(x, y) ==
    IF x = NaN \/ y = NaN THEN NaN
    ELSE IF (x = Inf /\ y = Zero) \/ (x = Zero /\ y = Inf) THEN NaN
    ELSE IF x = Inf \/ y = Inf THEN Inf
    ELSE Frac(x[1] * y[1], x[2] * y[2])

\* 1.f / z
FRecip(z) ==
    IF z = NaN THEN NaN
    ELSE IF z = Zero THEN Inf
    ELSE IF z = Inf THEN Zero
    ELSE <<z[2], z[1]>>

\* x / y
FDiv(x, y) ==
    IF x = NaN \/ y = NaN THEN NaN
    ELSE IF (x = Zero /\ y = Zero) \/ (x = Inf /\ y = Inf) THEN NaN
    ELSE IF x = Inf \/ y = Zero THEN Inf
    ELSE IF y = Inf THEN Zero
    ELSE Frac(x[1] * y[2], x[2] * y[1])

ExpUnderflow == -150

ExpOverflow == 128

Expf(val) ==
    IF val <= ExpUnderflow THEN Zero
    ELSE IF val >= ExpOverflow THEN Inf
    ELSE IF val >= 0 THEN <<2 ^ val, 1>>
    ELSE <<1, 2 ^ (0 - val)>>

Min(a, b) == IF a < b THEN a ELSE b

(***************************************************************************)
(* Masked softmax (lines 55-174).  One thread block computes one score row *)
(* of ld elements.  The score tensor is given by a repeating pattern:      *)
(* element idx of the input holds input[idx mod Len(input)].               *)
(***************************************************************************)
At(input, idx) == input[(idx % Len(input)) + 1]

RECURSIVE BlockReduceRange(_, _, _)
\* the sum of thread_data[lo..hi], reduced pairwise
BlockReduceRange(thread_data, lo, hi) ==
    IF lo = hi THEN thread_data[lo]
    ELSE FAdd(BlockReduceRange(thread_data, lo, (lo + hi) \div 2),
              BlockReduceRange(thread_data, (lo + hi) \div 2 + 1, hi))

\* cub::BlockReduce<float, TPB>(...).Reduce(thread_data, cub::Sum())
BlockReduce(thread_data, TPB) == BlockReduceRange(thread_data, 0, TPB - 1)

RECURSIVE StrideSum(_, _, _, _, _)
\* for (i = threadIdx.x; i < last_valid; i += TPB) thread_data += expf(input[offset + i])
StrideSum(input, offset, i, last_valid, TPB) ==
    IF i >= last_valid THEN Zero
    ELSE FAdd(Expf(At(input, offset + i)),
              StrideSum(input, offset, i + TPB, last_valid, TPB))

softmax(ld, last_valid, input, blockIdx, gridDimX, TPB) ==
    LET offset == (blockIdx.y * gridDimX + blockIdx.x) * ld
        thread_data == [t \in 0..(TPB - 1) |->
                           StrideSum(input, offset, t, last_valid, TPB)]
        z == BlockReduce(thread_data, TPB)
        reverse_z == FRecip(z)
    IN  [i \in 1..ld |->
            IF i - 1 < last_valid
            THEN FMul(Expf(At(input, offset + i - 1)), reverse_z)
            ELSE Zero]

softmaxSmall(ld, last_valid, input, blockIdx, gridDimX, TPB) ==
    LET offset == (blockIdx.y * gridDimX + blockIdx.x) * ld
        thread_data == [t \in 0..(TPB - 1) |->
                           IF t < last_valid THEN Expf(At(input, offset + t))
                           ELSE Zero]
        z == BlockReduce(thread_data, TPB)
        reverse_z == FRecip(z)
    IN  [i \in 1..ld |->
            IF i - 1 < TPB THEN FMul(thread_data[i - 1], reverse_z)
            ELSE Unwritten]

maskedSoftmaxKernelSmall(sequence_length, mask_index, input, blockIdx, gridDimX, TPB) ==
    LET last_valid == Min(sequence_length, mask_index[blockIdx.y + 1])
    IN  softmaxSmall(sequence_length, last_valid, input, blockIdx, gridDimX, TPB)

maskedSoftmaxKernel(sequence_length, mask_index, input, blockIdx, gridDimX, TPB) ==
    LET last_valid == Min(sequence_length, mask_index[blockIdx.y + 1])
    IN  softmax(sequence_length, last_valid, input, blockIdx, gridDimX, TPB)

\* the launch computeMaskedSoftmax selects: kernel, block width and grid
computeMaskedSoftmax(sequence_length, batch_size, num_heads) ==
    LET grid == [x |-> sequence_length * num_heads, y |-> batch_size]
    IN  IF sequence_length <= 32
        THEN [kernel |-> "maskedSoftmaxKernelSmall", blockSize |-> 32, grid |-> grid]
        ELSE IF sequence_length <= 128
        THEN [kernel |-> "maskedSoftmaxKernelSmall", blockSize |-> 128, grid |-> grid]
        ELSE IF sequence_length = 384
        THEN [kernel |-> "maskedSoftmaxKernelSmall", blockSize |-> 384, grid |-> grid]
        ELSE [kernel |-> "maskedSoftmaxKernel", blockSize |-> 256, grid |-> grid]

\* what the block blockIdx of a launch writes to its output row
runBlock(launch, args, blockIdx) ==
    IF launch.kernel = "maskedSoftmaxKernelSmall"
    THEN maskedSoftmaxKernelSmall(args.sequence_length, args.mask_index, args.input,
                                  blockIdx, launch.grid.x, launch.blockSize)
    ELSE maskedSoftmaxKernel(args.sequence_length, args.mask_index, args.input,
                             blockIdx, launch.grid.x, launch.blockSize)

(***************************************************************************)
(* SpecSoftmax: computeMaskedSoftmax is called on a score tensor and a     *)
(* mask, and one block of the launch is observed.                          *)
(***************************************************************************)
MaxShortSeq == 3

MaxBatch == 2

MaxHeads == 2

PatLen == 2

\* sequence lengths on both sides of every threshold of the launch table
BoundarySequences == {32, 33, 128, 129, 384, 385}

Scores == {ExpUnderflow, 0, 1, ExpOverflow}

MaskValues(S) == {m \in {0, S - 1, S, S + 1} : m >= 0}

InitSoftmax ==
    /\ \E S \in (1..MaxShortSeq) \cup BoundarySequences :
      \E B \in 1..MaxBatch, N \in 1..MaxHeads :
        /\ S > MaxShortSeq => (B = 1 /\ N = 1)
        /\ sm_args \in [sequence_length : {S}, batch_size : {B}, num_heads : {N},
                        mask_index : [1..B -> MaskValues(S)],
                        input : [1..PatLen -> Scores]]
        /\ sm_block \in [x : {0, S * N - 1}, y : 0..(B - 1)]
        /\ sm_pc = "start"
        /\ sm_kernel = None
        /\ sm_out = None
    /\ sz_args = None /\ sz_build = None /\ sz_pc = None /\ sz_scratch = None
    /\ sz_ws = None /\ sz_carve = None /\ sz_prev = None
    /\ st_row = None /\ st_small = None /\ st_general = None
    /\ tr_args = None /\ tr_qkv = None /\ tr_ctx = None
    /\ p_args = None /\ p_pc = None /\ p_locals = None /\ p_cublas = None
    /\ p_entry = None
    /\ p_helper = None /\ p_calls = None /\ p_failed = None /\ p_status = None
    /\ p_observed = None
    /\ k_cfg = None /\ k_pc = None /\ k_i = None /\ k_lv = None /\ k_shared = None
    /\ k_writers = None /\ k_early = None /\ k_arrived = None /\ k_tmp = None
    /\ k_z = None /\ k_rz = None /\ k_out = None

LaunchMaskedSoftmax ==
    /\ sm_pc = "start"
    /\ sm_kernel' = <<computeMaskedSoftmax(sm_args.sequence_length,
                                           sm_args.batch_size, sm_args.num_heads)>>
    /\ sm_pc' = "launched"
    /\ UNCHANGED <<sm_args, sm_block, sm_out>>
    /\ UNCHANGED <<sizeVars, strategyVars, transVars, driverVars, blockVars>>

RunBlock ==
    /\ sm_pc = "launched"
    /\ sm_out' = runBlock(sm_kernel[1], sm_args, sm_block)
    /\ sm_pc' = "done"
    /\ UNCHANGED <<sm_args, sm_block, sm_kernel>>
    /\ UNCHANGED <<sizeVars, strategyVars, transVars, driverVars, blockVars>>

NextSoftmax ==
    \/ LaunchMaskedSoftmax
    \/ RunBlock

\* the valid length and the scores of the row observed
RowLength == Min(sm_args.sequence_length, sm_args.mask_index[sm_block.y + 1])

RowOffset ==
    (sm_block.y * sm_args.sequence_length * sm_args.num_heads + sm_block.x)
        * sm_args.sequence_length

RowScore(j) == At(sm_args.input, RowOffset + j)

RECURSIVE RowSum(_, _)
\* the sum of exp(score[j]) over lo <= j <= hi
RowSum(lo, hi) ==
    IF lo > hi THEN Zero
    ELSE IF lo = hi THEN Expf(RowScore(lo))
    ELSE FAdd(RowSum(lo, (lo + hi) \div 2), RowSum((lo + hi) \div 2 + 1, hi))

\* Z: the sum of exp(score[j]) over j < L
RowZ == RowSum(0, RowLength - 1)

\* C3: for every sequence length, batch, head and query row, with
\* L = min(S, mask[b]), computeMaskedSoftmax writes exactly 0 at every column
\* j >= L and exp(score[j]) / Z at every column j < L, whichever kernel is
\* selected, L = 0 included.
C3_MaskedSoftmaxRow ==
    sm_pc = "done" =>
        LET L == RowLength
            Z == RowZ
        IN  \A j \in 0..(sm_args.sequence_length - 1) :
                sm_out[j + 1] =
                    IF j >= L THEN Zero ELSE FDiv(Expf(RowScore(j)), Z)

\* C3, where Z is neither zero nor infinite.
C3_RowWhenZFinite ==
    (sm_pc = "done" /\ RowZ \notin {Zero, Inf, NaN}) => C3_MaskedSoftmaxRow

(***************************************************************************)
(* SpecStrategy: the two device functions softmaxSmall and softmax are     *)
(* applied to the same score row, each with a block width of its own.      *)
(***************************************************************************)
MaxTPB == 4

\* block widths: narrower and wider than the rows, and two of the launch table
BlockWidths == (1..MaxTPB) \cup {32, 256}

InitStrategy ==
    /\ \E ld \in 1..MaxShortSeq :
         st_row \in [ld : {ld}, last_valid : 0..ld, input : [1..PatLen -> Scores],
                     blockIdx : [x : 0..1, y : {0}], gridDimX : {2}]
    /\ st_small = None
    /\ st_general = None
    /\ sz_args = None /\ sz_build = None /\ sz_pc = None /\ sz_scratch = None
    /\ sz_ws = None /\ sz_carve = None /\ sz_prev = None
    /\ sm_args = None /\ sm_block = None /\ sm_pc = None /\ sm_kernel = None
    /\ sm_out = None
    /\ tr_args = None /\ tr_qkv = None /\ tr_ctx = None
    /\ p_args = None /\ p_pc = None /\ p_locals = None /\ p_cublas = None
    /\ p_entry = None
    /\ p_helper = None /\ p_calls = None /\ p_failed = None /\ p_status = None
    /\ p_observed = None
    /\ k_cfg = None /\ k_pc = None /\ k_i = None /\ k_lv = None /\ k_shared = None
    /\ k_writers = None /\ k_early = None /\ k_arrived = None /\ k_tmp = None
    /\ k_z = None /\ k_rz = None /\ k_out = None

\* softmaxSmall is instantiated with one thread per score at least
StrategySmall(TPB) ==
    /\ st_small = None
    /\ TPB >= st_row.ld
    /\ st_small' = <<[TPB |-> TPB,
                      output |-> softmaxSmall(st_row.ld, st_row.last_valid,
                                              st_row.input, st_row.blockIdx,
                                              st_row.gridDimX, TPB)]>>
    /\ UNCHANGED <<st_row, st_general>>
    /\ UNCHANGED <<sizeVars, softmaxVars, transVars, driverVars, blockVars>>

StrategyGeneral(TPB) ==
    /\ st_general = None
    /\ st_general' = <<[TPB |-> TPB,
                        output |-> softmax(st_row.ld, st_row.last_valid,
                                           st_row.input, st_row.blockIdx,
                                           st_row.gridDimX, TPB)]>>
    /\ UNCHANGED <<st_row, st_small>>
    /\ UNCHANGED <<sizeVars, softmaxVars, transVars, driverVars, blockVars>>

NextStrategy ==
    \/ \E TPB \in BlockWidths : StrategySmall(TPB)
    \/ \E TPB \in BlockWidths : StrategyGeneral(TPB)

\* Z of the row the strategies are applied to
StrategyOffset == (st_row.blockIdx.y * st_row.gridDimX + st_row.blockIdx.x) * st_row.ld

RECURSIVE StrategySum(_, _)
StrategySum(j, L) ==
    IF j >= L THEN Zero
    ELSE FAdd(Expf(At(st_row.input, StrategyOffset + j)), StrategySum(j + 1, L))

StrategyZ == StrategySum(0, st_row.last_valid)

\* C4: for the same score row, row width ld and valid length last_valid in
\* 0..ld, softmaxSmall (block width TPB >= ld) and softmax (any TPB) write the
\* same value at every column of the output row.
C4_StrategiesAgree ==
    (st_small # None /\ st_general # None)
        => st_small[1].output = st_general[1].output

\* C4, where Z is not zero.
C4_AgreeWhenZNonzero ==
    StrategyZ # Zero => C4_StrategiesAgree

(***************************************************************************)
(* Layout transposes (lines 176-299).  A launch runs one task per thread   *)
(* of the grid; a task copies one element of the (possibly packed) type    *)
(* the kernel is instantiated with.  A copy is recorded per scalar element *)
(* as [task, out, in]: the task that made it and the scalar indices it     *)
(* wrote in the output and read in the input.  pack is the number of       *)
(* scalars in one element of the kernel's type (float2 over float: 2,      *)
(* float2 over half: 4, half2: 2).                                         *)
(***************************************************************************)
\* the scalar copies of one task that moves output[out] = input[in]
PackedCopy(task, out, in, pack) ==
    {[task |-> task, out |-> out * pack + lane, in |-> in * pack + lane] :
        lane \in 0..(pack - 1)}

\* all threads of a launch with the given grid and block
Threads(grid, block) ==
    [blockIdx : [x : 0..(grid.x - 1), y : 0..(grid.y - 1), z : 0..(grid.z - 1)],
     threadIdx : [x : 0..(block.x - 1), y : 0..(block.y - 1)]]

transposeCtxSwapped(H, t, grid, block, pack) ==
    LET n == t.threadIdx.y
        s == t.blockIdx.x
        b == t.blockIdx.y
        num_heads == block.y
        sequence_length == grid.x
        NH == num_heads * H
        NHS == NH * sequence_length
        in_offset == s * H + n * sequence_length * H + b * NHS
        out_offset == s * H + n * NH + b * NHS
        i == t.threadIdx.x
    IN  IF i < H THEN PackedCopy(t, out_offset + i, in_offset + i, pack) ELSE {}

transposeCtx(H, t, grid, block, pack) ==
    LET n == t.threadIdx.y
        s == t.blockIdx.x
        b == t.blockIdx.y
        num_heads == block.y
        sequence_length == grid.x
        NH == num_heads * H
        NHS == NH * sequence_length
        in_offset == s * H + n * sequence_length * H + b * NHS
        out_offset == n * H + s * NH + b * NHS
        i == t.threadIdx.x
    IN  IF i < H THEN PackedCopy(t, out_offset + i, in_offset + i, pack) ELSE {}

\* the packing the float and the half overload select for a head size
transPack(T, head_size) ==
    IF T = "float"
    THEN (IF head_size % 2 = 0 THEN 2 ELSE 1)
    ELSE (IF head_size % 4 = 0 THEN 4 ELSE IF head_size % 2 = 0 THEN 2 ELSE 1)

launchTransCtx(T, sequence_length, batch_size, head_size, num_heads) ==
    LET pack == transPack(T, head_size)
        H == head_size \div pack
        grid == [x |-> sequence_length, y |-> batch_size, z |-> 1]
        block == [x |-> H, y |-> num_heads]
    IN  UNION {transposeCtx(H, t, grid, block, pack) : t \in Threads(grid, block)}

transposeQKVPackedStride(H, t, grid, block, pack) ==
    LET n == t.threadIdx.y
        s == t.blockIdx.x
        b == t.blockIdx.y
        m == t.blockIdx.z
        num_heads == block.y
        sequence_length == grid.x
        batch_size == grid.y
        NH == num_heads * H
        NHS == NH * sequence_length
        in_offset == n * H + m * NH + s * 3 * NH + b * NHS * 3
        out_offset == s * H + n * sequence_length * H + b * NHS
                          + m * NHS * batch_size * pack
        i == t.threadIdx.x
    IN  IF i < H THEN PackedCopy(t, out_offset + i, in_offset + i, pack) ELSE {}

transposeQKV(H, t, grid, block, pack) ==
    LET n == t.threadIdx.y
        s == t.blockIdx.x
        b == t.blockIdx.y
        m == t.blockIdx.z
        num_heads == block.y
        sequence_length == grid.x
        batch_size == grid.y
        NH == num_heads * H
        NHS == NH * sequence_length
        in_offset == n * H + m * NH + s * 3 * NH + b * NHS * 3
        out_offset == s * H + n * sequence_length * H + b * NHS + m * NHS * batch_size
        i == t.threadIdx.x
    IN  IF i < H THEN PackedCopy(t, out_offset + i, in_offset + i, pack) ELSE {}

launchTransQkv(T, sequence_length, batch_size, head_size, num_heads) ==
    LET pack == transPack(T, head_size)
        H == head_size \div pack
        grid == [x |-> sequence_length, y |-> batch_size, z |-> 3]
        block == [x |-> H, y |-> num_heads]
    IN  UNION {transposeQKV(H, t, grid, block, pack) : t \in Threads(grid, block)}

(***************************************************************************)
(* SpecTrans: each transpose is launched once on a tensor of the drawn     *)
(* shape, in the float or the half instantiation.                          *)
(***************************************************************************)
MaxSeq == 2

MaxHeadSize == 4

ElementTypes == {"float", "half"}

InitTrans ==
    /\ tr_args \in [T : ElementTypes, sequence_length : 1..MaxSeq,
                    batch_size : 1..MaxBatch, head_size : 1..MaxHeadSize,
                    num_heads : 1..MaxHeads]
    /\ tr_qkv = None
    /\ tr_ctx = None
    /\ sz_args = None /\ sz_build = None /\ sz_pc = None /\ sz_scratch = None
    /\ sz_ws = None /\ sz_carve = None /\ sz_prev = None
    /\ sm_args = None /\ sm_block = None /\ sm_pc = None /\ sm_kernel = None
    /\ sm_out = None
    /\ st_row = None /\ st_small = None /\ st_general = None
    /\ p_args = None /\ p_pc = None /\ p_locals = None /\ p_cublas = None
    /\ p_entry = None
    /\ p_helper = None /\ p_calls = None /\ p_failed = None /\ p_status = None
    /\ p_observed = None
    /\ k_cfg = None /\ k_pc = None /\ k_i = None /\ k_lv = None /\ k_shared = None
    /\ k_writers = None /\ k_early = None /\ k_arrived = None /\ k_tmp = None
    /\ k_z = None /\ k_rz = None /\ k_out = None

LaunchTransQkv ==
    /\ tr_qkv = None
    /\ tr_qkv' = <<launchTransQkv(tr_args.T, tr_args.sequence_length,
                                  tr_args.batch_size, tr_args.head_size,
                                  tr_args.num_heads)>>
    /\ UNCHANGED <<tr_args, tr_ctx>>
    /\ UNCHANGED <<sizeVars, softmaxVars, strategyVars, driverVars, blockVars>>

LaunchTransCtx ==
    /\ tr_ctx = None
    /\ tr_ctx' = <<launchTransCtx(tr_args.T, tr_args.sequence_length,
                                  tr_args.batch_size, tr_args.head_size,
                                  tr_args.num_heads)>>
    /\ UNCHANGED <<tr_args, tr_qkv>>
    /\ UNCHANGED <<sizeVars, softmaxVars, strategyVars, driverVars, blockVars>>

NextTrans ==
    \/ LaunchTransQkv
    \/ LaunchTransCtx

\* row-major index of (i1, .., i5) in a tensor of shape (d1, .., d5)
Flat5(i1, i2, i3, i4, i5, d2, d3, d4, d5) ==
    (((i1 * d2 + i2) * d3 + i3) * d4 + i4) * d5 + i5

Flat4(i1, i2, i3, i4, d2, d3, d4) == ((i1 * d2 + i2) * d3 + i3) * d4 + i4

\* C5: launchTransQkv is a bijection from [B, S, 3, N, H] onto [3, B, N, S, H]:
\* the output element at (m, b, n, s, h) is the input element at
\* (b, s, m, n, h), every output element is written by exactly one task, and
\* no element outside the 3*B*N*S*H range is read or written, on the scalar
\* and on the packed paths alike.
C5_TransQkvBijection ==
    tr_qkv # None =>
        LET B == tr_args.batch_size
            S == tr_args.sequence_length
            N == tr_args.num_heads
            H == tr_args.head_size
            copies == tr_qkv[1]
        IN  /\ \A c \in copies : /\ c.out \in 0..(3 * B * N * S * H - 1)
                                 /\ c.in \in 0..(3 * B * N * S * H - 1)
            /\ \A b \in 0..(B - 1), s \in 0..(S - 1), m \in 0..2,
                  n \in 0..(N - 1), h \in 0..(H - 1) :
                  LET w == {c \in copies : c.out = Flat5(m, b, n, s, h, B, N, S, H)}
                  IN  /\ Cardinality(w) = 1
                      /\ \A c \in w : c.in = Flat5(b, s, m, n, h, S, 3, N, H)

C5_Witness ==
    /\ tr_qkv # None
    /\ tr_args.T = "half" /\ tr_args.head_size = 4
    /\ tr_args.batch_size = 2 /\ tr_args.sequence_length = 2 /\ tr_args.num_heads = 2
    /\ Cardinality(tr_qkv[1]) = 96

\* C6: launchTransCtx maps [B, N, S, H] to [B, S, N, H]: the output element at
\* (b, s, n, h) is the input element at (b, n, s, h), and every one of the
\* B*S*N*H output elements is written exactly once, on the scalar and the
\* packed paths alike.
C6_TransCtxPermutation ==
    tr_ctx # None =>
        LET B == tr_args.batch_size
            S == tr_args.sequence_length
            N == tr_args.num_heads
            H == tr_args.head_size
            copies == tr_ctx[1]
        IN  /\ Cardinality(copies) = B * S * N * H
            /\ \A b \in 0..(B - 1), s \in 0..(S - 1), n \in 0..(N - 1),
                  h \in 0..(H - 1) :
                  LET w == {c \in copies : c.out = Flat4(b, s, n, h, S, N, H)}
                  IN  /\ Cardinality(w) = 1
                      /\ \A c \in w : c.in = Flat4(b, n, s, h, N, S, H)

C6_Witness ==
    /\ tr_ctx # None
    /\ tr_args.T = "float" /\ tr_args.head_size = 2
    /\ tr_args.batch_size = 2 /\ tr_args.sequence_length = 2 /\ tr_args.num_heads = 2
    /\ Cardinality(tr_ctx[1]) = 16

(***************************************************************************)
(* The driver (lines 301-402).  qkvToCtx issues its stages in program      *)
(* order; the device or the library may reject any of them.  CUDA_CALL and *)
(* CUBLAS_CALL evaluate the call and log a failure; every use in this file *)
(* is an expression statement, so nothing of the outcome is kept, and the  *)
(* next statement runs.  A stage is recorded with the arguments it was     *)
(* issued with; a buffer address is <<buffer, element offset>>.            *)
(***************************************************************************)
\* the value of a word that fits a TLC integer
WordToNat(w) == w[1] + 256 * w[2] + 65536 * w[3] + 16777216 * w[4]

\* lines 339-342 and 348-355: the locals of qkvToCtx, pointers as element
\* offsets from the workspace pointer.  The driver's dimensions are small:
\* no int product overflows and both builds compute the same values.
qkvToCtxLocals(a) ==
    LET c == carveWorkspace(a.element_size, a.batch_size, a.num_heads, a.head_size,
                            a.sequence_length, "wrap32")
    IN  [scratch1 |-> WordToNat(c.scratch1) \div a.element_size,
         scratch2 |-> WordToNat(c.scratch2) \div a.element_size,
         scratch3 |-> WordToNat(c.scratch3) \div a.element_size,
         q |-> WordToNat(c.q) \div a.element_size,
         k |-> WordToNat(c.k) \div a.element_size,
         v |-> WordToNat(c.v) \div a.element_size,
         batches |-> a.batch_size * a.num_heads,
         size_per_batch |-> a.sequence_length * a.head_size,
         temp_matrix_size |-> a.sequence_length * a.sequence_length]

\* the stream launchAttentionKernel passes: nullptr, the default stream
DefaultStream == "default"

PointerModes == {"CUBLAS_POINTER_MODE_HOST", "CUBLAS_POINTER_MODE_DEVICE"}

MathModes == {"CUBLAS_DEFAULT_MATH", "CUBLAS_TENSOR_OP_MATH"}

HandleStreams == {DefaultStream, "stream1"}

\* CublasConfigHelper(cublas): capture the two modes, then override them
CublasConfigHelperCtor(cublas) ==
    [helper |-> [pointer_mode_ |-> cublas.pointer_mode, math_mode_ |-> cublas.math_mode],
     cublas |-> [cublas EXCEPT !.pointer_mode = "CUBLAS_POINTER_MODE_HOST",
                               !.math_mode = "CUBLAS_TENSOR_OP_MATH"]]

CublasConfigHelperDtorMathOnly(helper, cublas) ==
    [cublas EXCEPT !.math_mode = helper.math_mode_]

\* ~CublasConfigHelper(): put both modes back
CublasConfigHelperDtor(helper, cublas) ==
    [cublas EXCEPT !.math_mode = helper.math_mode_,
                   !.pointer_mode = helper.pointer_mode_]

ElementType(element_size) == IF element_size = 2 THEN "half" ELSE "float"

\* line 345: launchTransQkv(stream, S, B, H, N, input, scratch3)
transQkvCall(a, l, stream) ==
    [stage |-> "TransQkv", stream |-> stream, T |-> ElementType(a.element_size),
     sequence_length |-> a.sequence_length, batch_size |-> a.batch_size,
     head_size |-> a.head_size, num_heads |-> a.num_heads,
     input |-> <<"input", 0>>, output |-> <<"workspace", l.scratch3>>]

\* lines 362-363: K' * Q into scratch1
gemm1Call(a, l, cublas) ==
    [stage |-> "Gemm1", stream |-> cublas.stream,
     pointer_mode |-> cublas.pointer_mode, math_mode |-> cublas.math_mode,
     transa |-> "T", transb |-> "N",
     m |-> a.sequence_length, n |-> a.sequence_length, k |-> a.head_size,
     alpha |-> "rsqrt_head_size", beta |-> 0,
     A |-> <<"workspace", l.k>>, lda |-> a.head_size, strideA |-> l.size_per_batch,
     B |-> <<"workspace", l.q>>, ldb |-> a.head_size, strideB |-> l.size_per_batch,
     C |-> <<"workspace", l.scratch1>>,
     ldc |-> a.sequence_length, strideC |-> l.temp_matrix_size,
     batchCount |-> l.batches]

\* line 366: computeMaskedSoftmax(stream, S, B, N, mask_index, scratch1, scratch2)
softmaxCall(a, l, stream) ==
    [stage |-> "Softmax", stream |-> stream,
     sequence_length |-> a.sequence_length, batch_size |-> a.batch_size,
     num_heads |-> a.num_heads, mask_index |-> a.mask_index,
     input |-> <<"workspace", l.scratch1>>, output |-> <<"workspace", l.scratch2>>]

gemm2CallIntoV(a, l, cublas) ==
    [stage |-> "Gemm2", stream |-> cublas.stream,
     pointer_mode |-> cublas.pointer_mode, math_mode |-> cublas.math_mode,
     transa |-> "N", transb |-> "N",
     m |-> a.head_size, n |-> a.sequence_length, k |-> a.sequence_length,
     alpha |-> 1, beta |-> 0,
     A |-> <<"workspace", l.v>>, lda |-> a.head_size, strideA |-> l.size_per_batch,
     B |-> <<"workspace", l.scratch2>>,
     ldb |-> a.sequence_length, strideB |-> l.temp_matrix_size,
     C |-> <<"workspace", l.v>>,
     ldc |-> a.head_size, strideC |-> l.size_per_batch,
     batchCount |-> l.batches]

\* lines 369-370: V * P into scratch3
gemm2Call(a, l, cublas) ==
    [stage |-> "Gemm2", stream |-> cublas.stream,
     pointer_mode |-> cublas.pointer_mode, math_mode |-> cublas.math_mode,
     transa |-> "N", transb |-> "N",
     m |-> a.head_size, n |-> a.sequence_length, k |-> a.sequence_length,
     alpha |-> 1, beta |-> 0,
     A |-> <<"workspace", l.v>>, lda |-> a.head_size, strideA |-> l.size_per_batch,
     B |-> <<"workspace", l.scratch2>>,
     ldb |-> a.sequence_length, strideB |-> l.temp_matrix_size,
     C |-> <<"workspace", l.scratch3>>,
     ldc |-> a.head_size, strideC |-> l.size_per_batch,
     batchCount |-> l.batches]

\* line 373: launchTransCtx(stream, S, B, H, N, scratch3, output)
transCtxCall(a, l, stream) ==
    [stage |-> "TransCtx", stream |-> stream, T |-> ElementType(a.element_size),
     sequence_length |-> a.sequence_length, batch_size |-> a.batch_size,
     head_size |-> a.head_size, num_heads |-> a.num_heads,
     input |-> <<"workspace", l.scratch3>>, output |-> <<"output", 0>>]

(***************************************************************************)
(* The elements a stage reads and writes, as <<buffer, element offset>>.   *)
(***************************************************************************)
Shift(base, offsets) == {<<base[1], base[2] + o>> : o \in offsets}

\* a column-major matrix of the given rows and columns, leading dimension ld,
\* repeated batchCount times at the given stride
MatrixElements(rows, cols, ld, stride, batchCount) ==
    {i * stride + c * ld + r :
        i \in 0..(batchCount - 1), c \in 0..(cols - 1), r \in 0..(rows - 1)}

\* cublas<t>gemmStridedBatched, C[i] = alpha op(A[i]) op(B[i]) + beta C[i]:
\* op(A) is m x k, op(B) is k x n, C is m x n; C is an input only if beta # 0
gemmReads(g) ==
    Shift(g.A, IF g.transa = "N"
               THEN MatrixElements(g.m, g.k, g.lda, g.strideA, g.batchCount)
               ELSE MatrixElements(g.k, g.m, g.lda, g.strideA, g.batchCount))
    \cup Shift(g.B, IF g.transb = "N"
                    THEN MatrixElements(g.k, g.n, g.ldb, g.strideB, g.batchCount)
                    ELSE MatrixElements(g.n, g.k, g.ldb, g.strideB, g.batchCount))
    \cup (IF g.beta = 0 THEN {}
          ELSE Shift(g.C, MatrixElements(g.m, g.n, g.ldc, g.strideC, g.batchCount)))

gemmWrites(g) ==
    Shift(g.C, MatrixElements(g.m, g.n, g.ldc, g.strideC, g.batchCount))

\* the scores a softmax block reads: softmaxSmall's thread t reads column t
\* if t < last_valid, softmax's threads loop over the columns below last_valid
rowReads(kernel, ld, last_valid, offset, TPB) ==
    IF kernel = "maskedSoftmaxKernelSmall"
    THEN {offset + t : t \in {u \in 0..(TPB - 1) : u < last_valid}}
    ELSE {offset + i : i \in 0..(last_valid - 1)}

\* the probabilities a softmax block writes: softmaxSmall's thread t writes
\* column t if t < ld, softmax's threads loop over all ld columns
rowWrites(kernel, ld, offset, TPB) ==
    IF kernel = "maskedSoftmaxKernelSmall"
    THEN {offset + t : t \in {u \in 0..(TPB - 1) : u < ld}}
    ELSE {offset + i : i \in 0..(ld - 1)}

softmaxBlocks(c) ==
    LET launch == computeMaskedSoftmax(c.sequence_length, c.batch_size, c.num_heads)
    IN  {[launch |-> launch, x |-> x, y |-> y,
          offset |-> (y * launch.grid.x + x) * c.sequence_length,
          last_valid |-> Min(c.sequence_length, c.mask_index[y + 1])] :
            x \in 0..(launch.grid.x - 1), y \in 0..(launch.grid.y - 1)}

softmaxReads(c) ==
    {<<"mask_index", b.y>> : b \in softmaxBlocks(c)}
    \cup Shift(c.input,
               UNION {rowReads(b.launch.kernel, c.sequence_length, b.last_valid,
                               b.offset, b.launch.blockSize) : b \in softmaxBlocks(c)})

softmaxWrites(c) ==
    Shift(c.output,
          UNION {rowWrites(b.launch.kernel, c.sequence_length, b.offset,
                           b.launch.blockSize) : b \in softmaxBlocks(c)})

transposeCopies(c) ==
    IF c.stage = "TransQkv"
    THEN launchTransQkv(c.T, c.sequence_length, c.batch_size, c.head_size, c.num_heads)
    ELSE launchTransCtx(c.T, c.sequence_length, c.batch_size, c.head_size, c.num_heads)

stageReads(c) ==
    IF c.stage \in {"Gemm1", "Gemm2"} THEN gemmReads(c)
    ELSE IF c.stage = "Softmax" THEN softmaxReads(c)
    ELSE Shift(c.input, {e.in : e \in transposeCopies(c)})

stageWrites(c) ==
    IF c.stage \in {"Gemm1", "Gemm2"} THEN gemmWrites(c)
    ELSE IF c.stage = "Softmax" THEN softmaxWrites(c)
    ELSE Shift(c.output, {e.out : e \in transposeCopies(c)})

(***************************************************************************)
(* Spec, SpecStages: launchAttentionKernel is called once on a handle      *)
(* whose modes and stream the caller left in any state.                    *)
(***************************************************************************)
\* batch b (1-based) has (b - 1) mod (S + 1) valid positions
MaskOf(B, S) == [b \in 1..B |-> (b - 1) % (S + 1)]

DriverArgs ==
    {[element_size |-> e, batch_size |-> B, sequence_length |-> S, num_heads |-> N,
      head_size |-> H, mask_index |-> MaskOf(B, S)] :
        e \in ElementSizes, B \in 1..MaxBatch, S \in 1..MaxSeq,
        N \in 1..MaxHeads, H \in 1..MaxHeadSize}

Init ==
    /\ p_args \in DriverArgs
    /\ p_cublas \in [pointer_mode : PointerModes, math_mode : MathModes,
                     stream : HandleStreams]
    /\ p_entry = p_cublas
    /\ p_pc = "qkvToCtx"
    /\ p_locals = None
    /\ p_helper = None
    /\ p_calls = <<>>
    /\ p_failed = "no"
    /\ p_status = None
    /\ p_observed = None
    /\ k_cfg = None /\ k_pc = None /\ k_i = None /\ k_lv = None /\ k_shared = None
    /\ k_writers = None /\ k_early = None /\ k_arrived = None /\ k_tmp = None
    /\ k_z = None /\ k_rz = None /\ k_out = None
    /\ sz_args = None /\ sz_build = None /\ sz_pc = None /\ sz_scratch = None
    /\ sz_ws = None /\ sz_carve = None /\ sz_prev = None
    /\ sm_args = None /\ sm_block = None /\ sm_pc = None /\ sm_kernel = None
    /\ sm_out = None
    /\ st_row = None /\ st_small = None /\ st_general = None
    /\ tr_args = None /\ tr_qkv = None /\ tr_ctx = None

\* the same call on a handle in device pointer mode and default math, bound
\* to another stream
InitStages ==
    /\ p_args \in DriverArgs
    /\ p_cublas = [pointer_mode |-> "CUBLAS_POINTER_MODE_DEVICE",
                   math_mode |-> "CUBLAS_DEFAULT_MATH", stream |-> "stream1"]
    /\ p_entry = p_cublas
    /\ p_pc = "qkvToCtx"
    /\ p_locals = None
    /\ p_helper = None
    /\ p_calls = <<>>
    /\ p_failed = "no"
    /\ p_status = None
    /\ p_observed = None
    /\ k_cfg = None /\ k_pc = None /\ k_i = None /\ k_lv = None /\ k_shared = None
    /\ k_writers = None /\ k_early = None /\ k_arrived = None /\ k_tmp = None
    /\ k_z = None /\ k_rz = None /\ k_out = None
    /\ sz_args = None /\ sz_build = None /\ sz_pc = None /\ sz_scratch = None
    /\ sz_ws = None /\ sz_carve = None /\ sz_prev = None
    /\ sm_args = None /\ sm_block = None /\ sm_pc = None /\ sm_kernel = None
    /\ sm_out = None
    /\ st_row = None /\ st_small = None /\ st_general = None
    /\ tr_args = None /\ tr_qkv = None /\ tr_ctx = None

\* a stage is issued; when the device or the library rejects it, the first
\* such stage is remembered
Issue(call, ok, next) ==
    /\ p_calls' = Append(p_calls, call)
    /\ p_failed' = IF ~ok /\ p_failed = "no" THEN call.stage ELSE p_failed
    /\ p_pc' = next

\* lines 389-401 enter qkvToCtx, which sets its locals up
StepEnter ==
    /\ p_pc = "qkvToCtx"
    /\ p_locals' = qkvToCtxLocals(p_args)
    /\ p_pc' = "launchTransQkv"
    /\ UNCHANGED <<p_args, p_cublas, p_entry, p_helper, p_calls, p_failed, p_status, p_observed>>
    /\ UNCHANGED <<sizeVars, softmaxVars, strategyVars, transVars, blockVars>>

StepLaunchTransQkv(ok) ==
    /\ p_pc = "launchTransQkv"
    /\ Issue(transQkvCall(p_args, p_locals, DefaultStream), ok, "cublasSetStream")
    /\ UNCHANGED <<p_args, p_locals, p_cublas, p_entry, p_helper, p_status, p_observed>>
    /\ UNCHANGED <<sizeVars, softmaxVars, strategyVars, transVars, blockVars>>

StepSetStream ==
    /\ p_pc = "cublasSetStream"
    /\ p_cublas' = [p_cublas EXCEPT !.stream = DefaultStream]
    /\ p_pc' = "helper"
    /\ UNCHANGED <<p_args, p_locals, p_entry, p_helper, p_calls, p_failed, p_status, p_observed>>
    /\ UNCHANGED <<sizeVars, softmaxVars, strategyVars, transVars, blockVars>>

StepHelper ==
    /\ p_pc = "helper"
    /\ p_helper' = <<CublasConfigHelperCtor(p_cublas).helper>>
    /\ p_cublas' = CublasConfigHelperCtor(p_cublas).cublas
    /\ p_pc' = "gemm1"
    /\ UNCHANGED <<p_args, p_locals, p_entry, p_calls, p_failed, p_status, p_observed>>
    /\ UNCHANGED <<sizeVars, softmaxVars, strategyVars, transVars, blockVars>>

StepGemm1(ok) ==
    /\ p_pc = "gemm1"
    /\ Issue(gemm1Call(p_args, p_locals, p_cublas), ok, "computeMaskedSoftmax")
    /\ UNCHANGED <<p_args, p_locals, p_cublas, p_entry, p_helper, p_status, p_observed>>
    /\ UNCHANGED <<sizeVars, softmaxVars, strategyVars, transVars, blockVars>>

StepSoftmax(ok) ==
    /\ p_pc = "computeMaskedSoftmax"
    /\ Issue(softmaxCall(p_args, p_locals, DefaultStream), ok, "gemm2")
    /\ UNCHANGED <<p_args, p_locals, p_cublas, p_entry, p_helper, p_status, p_observed>>
    /\ UNCHANGED <<sizeVars, softmaxVars, strategyVars, transVars, blockVars>>

StepGemm2(ok) ==
    /\ p_pc = "gemm2"
    /\ Issue(gemm2Call(p_args, p_locals, p_cublas), ok, "launchTransCtx")
    /\ UNCHANGED <<p_args, p_locals, p_cublas, p_entry, p_helper, p_status, p_observed>>
    /\ UNCHANGED <<sizeVars, softmaxVars, strategyVars, transVars, blockVars>>

StepLaunchTransCtx(ok) ==
    /\ p_pc = "launchTransCtx"
    /\ Issue(transCtxCall(p_args, p_locals, DefaultStream), ok, "return")
    /\ UNCHANGED <<p_args, p_locals, p_cublas, p_entry, p_helper, p_status, p_observed>>
    /\ UNCHANGED <<sizeVars, softmaxVars, strategyVars, transVars, blockVars>>

\* line 374: return 0; the helper goes out of scope
StepReturn ==
    /\ p_pc = "return"
    /\ p_status' = 0
    /\ p_cublas' = CublasConfigHelperDtor(p_helper[1], p_cublas)
    /\ p_pc' = "returned"
    /\ UNCHANGED <<p_args, p_locals, p_entry, p_helper, p_calls, p_failed, p_observed>>
    /\ UNCHANGED <<sizeVars, softmaxVars, strategyVars, transVars, blockVars>>

\* lines 391-401: launchAttentionKernel drops qkvToCtx's value and returns void
StepKernelReturn ==
    /\ p_pc = "returned"
    /\ p_observed' = "void"
    /\ p_pc' = "done"
    /\ UNCHANGED <<p_args, p_locals, p_cublas, p_entry, p_helper, p_calls, p_failed, p_status>>
    /\ UNCHANGED <<sizeVars, softmaxVars, strategyVars, transVars, blockVars>>

NextDriver ==
    \/ StepEnter
    \/ \E ok \in BOOLEAN : StepLaunchTransQkv(ok)
    \/ StepSetStream
    \/ StepHelper
    \/ \E ok \in BOOLEAN : StepGemm1(ok)
    \/ \E ok \in BOOLEAN : StepSoftmax(ok)
    \/ \E ok \in BOOLEAN : StepGemm2(ok)
    \/ \E ok \in BOOLEAN : StepLaunchTransCtx(ok)
    \/ StepReturn
    \/ StepKernelReturn

(***************************************************************************)
(* Properties of the driver.                                               *)
(***************************************************************************)
Returned == p_pc \in {"returned", "done"}

\* C7: whenever a step of the pipeline fails (a kernel launch in
\* launchTransQkv, computeMaskedSoftmax or launchTransCtx, or either batched
\* GEMM), qkvToCtx returns a non-zero status and the caller of
\* launchAttentionKernel can observe the failure.
C7_FailuresPropagate ==
    /\ (Returned /\ p_failed # "no") => p_status # 0
    /\ (p_pc = "done" /\ p_failed # "no") => p_observed = "error"

\* C8: after qkvToCtx has returned, the handle's pointer mode and math mode
\* equal their values before the call, whether or not a stage failed; both
\* GEMM calls are made in host pointer mode with tensor-op math.
C8_ModesRestored ==
    /\ Returned => /\ p_cublas.pointer_mode = p_entry.pointer_mode
                   /\ p_cublas.math_mode = p_entry.math_mode
    /\ \A i \in 1..Len(p_calls) :
          p_calls[i].stage \in {"Gemm1", "Gemm2"} =>
              /\ p_calls[i].pointer_mode = "CUBLAS_POINTER_MODE_HOST"
              /\ p_calls[i].math_mode = "CUBLAS_TENSOR_OP_MATH"
    /\ p_helper # None => /\ p_helper[1].pointer_mode_ = p_entry.pointer_mode
                          /\ p_helper[1].math_mode_ = p_entry.math_mode

C8_Witness ==
    /\ p_pc = "returned"
    /\ p_failed = "Gemm1"
    /\ Len(p_calls) = 5
    /\ p_entry.pointer_mode = "CUBLAS_POINTER_MODE_DEVICE"
    /\ p_entry.math_mode = "CUBLAS_DEFAULT_MATH"
    /\ p_calls[2].pointer_mode = "CUBLAS_POINTER_MODE_HOST"
    /\ p_cublas.pointer_mode = "CUBLAS_POINTER_MODE_DEVICE"

StageOrder == <<"TransQkv", "Gemm1", "Softmax", "Gemm2", "TransCtx">>

\* C10: qkvToCtx issues exactly five stages, in the order Transform, GEMM1,
\* Softmax, GEMM2, Transform, all on the stream it was given, the handle
\* being bound to that stream before GEMM1; every stage reads workspace
\* elements only after an earlier stage wrote them, no stage writes what it
\* reads, and GEMM2 writes the Q block, away from the V block and scratch2.
C10_StagesOrdered ==
    /\ Len(p_calls) <= Len(StageOrder)
    /\ \A i \in 1..Len(p_calls) : /\ p_calls[i].stage = StageOrder[i]
                                  /\ p_calls[i].stream = DefaultStream
    /\ Returned => Len(p_calls) = Len(StageOrder)
    /\ p_pc = "returned" =>
          LET R == <<stageReads(p_calls[1]), stageReads(p_calls[2]),
                     stageReads(p_calls[3]), stageReads(p_calls[4]),
                     stageReads(p_calls[5])>>
              W == <<stageWrites(p_calls[1]), stageWrites(p_calls[2]),
                     stageWrites(p_calls[3]), stageWrites(p_calls[4]),
                     stageWrites(p_calls[5])>>
              total_size == p_locals.batches * p_locals.size_per_batch
              scratch_len == p_locals.batches * p_locals.temp_matrix_size
              Block(base, len) == {<<"workspace", base + o>> : o \in 0..(len - 1)}
          IN  /\ \A i \in 1..5 :
                    /\ \A r \in R[i] :
                          r[1] = "workspace" => \E j \in 1..(i - 1) : r \in W[j]
                    /\ R[i] \cap W[i] = {}
                    /\ \A w \in W[i] : w[1] \in {"workspace", "output"}
              /\ W[1] = Block(p_locals.q, 3 * total_size)
              /\ R[2] = Block(p_locals.q, 2 * total_size)
              /\ W[2] = Block(p_locals.scratch1, scratch_len)
              /\ W[3] = Block(p_locals.scratch2, scratch_len)
              /\ R[4] = Block(p_locals.v, total_size)
                            \cup Block(p_locals.scratch2, scratch_len)
              /\ W[4] = Block(p_locals.q, total_size)
              /\ R[5] = Block(p_locals.q, total_size)
              /\ W[5] = {<<"output", o>> : o \in 0..(total_size - 1)}

C10_Witness ==
    /\ p_pc = "returned"
    /\ p_failed = "no"
    /\ Len(p_calls) = 5
    /\ p_entry.stream # DefaultStream
    /\ p_calls[2].stream = DefaultStream
    /\ p_args.batch_size = 2 /\ p_args.sequence_length = 2
    /\ p_args.num_heads = 2 /\ p_args.head_size = 2
    /\ p_calls[4].C = <<"workspace", p_locals.q>>
    /\ p_locals.q < p_locals.v

(***************************************************************************)
(* SpecBlock: the threads of one block of maskedSoftmaxKernelSmall or      *)
(* maskedSoftmaxKernel (lines 55-144), one statement at a time, in every   *)
(* interleaving.  The scores themselves are left out: what is followed is  *)
(* which thread reads and writes which shared scalar and which column.     *)
(* The launch table of computeMaskedSoftmax gives the small kernel a block *)
(* at least as wide as the row, and so does the initial state.             *)
(***************************************************************************)
MaxThreads == 3

BlockThreads == 0..(k_cfg.TPB - 1)

\* __syncthreads(): a thread leaves once every thread of the block arrived
syncthreadsMissing(arrived, TPB) == TRUE

syncthreads(arrived, TPB) == arrived = 0..(TPB - 1)

\* if (threadIdx.x == 0): the thread that writes the shared scalars
IsThread0(t) == t = 0

InitBlock ==
    /\ \E kernel \in {"maskedSoftmaxKernelSmall", "maskedSoftmaxKernel"} :
         \E TPB \in 1..MaxThreads, ld \in 1..MaxShortSeq :
           /\ kernel = "maskedSoftmaxKernelSmall" => TPB >= ld
           /\ k_cfg \in [kernel : {kernel}, TPB : {TPB}, ld : {ld}, mask : 0..(ld + 1)]
    /\ k_pc = [t \in 0..(k_cfg.TPB - 1) |-> "mask"]
    /\ k_i = [t \in 0..(k_cfg.TPB - 1) |-> 0]
    /\ k_lv = [t \in 0..(k_cfg.TPB - 1) |-> 0]
    /\ k_shared = [last_valid |-> <<>>, reverse_z |-> <<>>]
    /\ k_writers = [last_valid |-> {}, reverse_z |-> {}]
    /\ k_early = {}
    /\ k_arrived = [mask |-> {}, z |-> {}]
    /\ k_tmp = {}
    /\ k_z = <<>>
    /\ k_rz = {}
    /\ k_out = [c \in 0..(k_cfg.ld - 1) |-> <<>>]
    /\ sz_args = None /\ sz_build = None /\ sz_pc = None /\ sz_scratch = None
    /\ sz_ws = None /\ sz_carve = None /\ sz_prev = None
    /\ sm_args = None /\ sm_block = None /\ sm_pc = None /\ sm_kernel = None
    /\ sm_out = None
    /\ st_row = None /\ st_small = None /\ st_general = None
    /\ tr_args = None /\ tr_qkv = None /\ tr_ctx = None
    /\ p_args = None /\ p_pc = None /\ p_locals = None /\ p_cublas = None
    /\ p_entry = None /\ p_helper = None /\ p_calls = None /\ p_failed = None
    /\ p_status = None /\ p_observed = None

\* lines 126-128 / 139-141: thread 0 stores min(sequence_length, mask_index[..])
\* in the shared last_valid; every thread goes on to the barrier
WriteLastValid(t) ==
    /\ k_pc[t] = "mask"
    /\ IF IsThread0(t)
       THEN /\ k_shared' = [k_shared EXCEPT !.last_valid = <<Min(k_cfg.ld, k_cfg.mask)>>]
            /\ k_writers' = [k_writers EXCEPT !.last_valid = @ \cup {t}]
       ELSE UNCHANGED <<k_shared, k_writers>>
    /\ k_arrived' = [k_arrived EXCEPT !.mask = @ \cup {t}]
    /\ k_pc' = [k_pc EXCEPT ![t] = "sync_mask"]
    /\ UNCHANGED <<k_cfg, k_i, k_lv, k_early, k_tmp, k_z, k_rz, k_out>>
    /\ UNCHANGED <<sizeVars, softmaxVars, strategyVars, transVars, driverVars>>

\* lines 129 / 142: __syncthreads()
SyncMask(t) ==
    /\ k_pc[t] = "sync_mask"
    /\ syncthreads(k_arrived.mask, k_cfg.TPB)
    /\ k_pc' = [k_pc EXCEPT ![t] = "call"]
    /\ UNCHANGED <<k_cfg, k_i, k_lv, k_shared, k_writers, k_early, k_arrived, k_tmp,
                   k_z, k_rz, k_out>>
    /\ UNCHANGED <<sizeVars, softmaxVars, strategyVars, transVars, driverVars>>

\* lines 131 / 143: the thread reads the shared last_valid to pass it by
\* value.  A read before the write is a read of uninitialised shared memory:
\* any value.
ReadLastValid(t) ==
    /\ k_pc[t] = "call"
    /\ IF k_shared.last_valid # <<>>
       THEN /\ k_lv' = [k_lv EXCEPT ![t] = k_shared.last_valid[1]]
            /\ UNCHANGED k_early
       ELSE /\ \E v \in 0..k_cfg.ld : k_lv' = [k_lv EXCEPT ![t] = v]
            /\ k_early' = k_early \cup {<<"last_valid", t>>}
    /\ k_i' = [k_i EXCEPT ![t] = t]
    /\ k_pc' = [k_pc EXCEPT ![t] = "accumulate"]
    /\ UNCHANGED <<k_cfg, k_shared, k_writers, k_arrived, k_tmp, k_z, k_rz, k_out>>
    /\ UNCHANGED <<sizeVars, softmaxVars, strategyVars, transVars, driverVars>>

\* lines 68-72: one iteration of softmax's loop, or its exit;
\* lines 102-106: softmaxSmall's single guarded load
Accumulate(t) ==
    /\ k_pc[t] = "accumulate"
    /\ IF k_cfg.kernel = "maskedSoftmaxKernel" /\ k_i[t] < k_lv[t]
       THEN /\ k_i' = [k_i EXCEPT ![t] = @ + k_cfg.TPB]
            /\ UNCHANGED k_pc
       ELSE /\ k_pc' = [k_pc EXCEPT ![t] = "reduce"]
            /\ UNCHANGED k_i
    /\ UNCHANGED <<k_cfg, k_lv, k_shared, k_writers, k_early, k_arrived, k_tmp, k_z,
                   k_rz, k_out>>
    /\ UNCHANGED <<sizeVars, softmaxVars, strategyVars, transVars, driverVars>>

\* lines 74 / 108: the thread hands its thread_data to BlockReduce.  Only
\* thread 0 is given the sum, so only thread 0 has to stay for the others.
Deposit(t) ==
    /\ k_pc[t] = "reduce"
    /\ k_tmp' = k_tmp \cup {t}
    /\ k_pc' = [k_pc EXCEPT ![t] = IF IsThread0(t) THEN "reducing" ELSE "write_z"]
    /\ UNCHANGED <<k_cfg, k_i, k_lv, k_shared, k_writers, k_early, k_arrived, k_z,
                   k_rz, k_out>>
    /\ UNCHANGED <<sizeVars, softmaxVars, strategyVars, transVars, driverVars>>

\* lines 74 / 108: Reduce returns thread 0 the sum over the whole block
FinishReduce(t) ==
    /\ k_pc[t] = "reducing"
    /\ k_tmp = BlockThreads
    /\ k_z' = <<k_tmp>>
    /\ k_pc' = [k_pc EXCEPT ![t] = "write_z"]
    /\ UNCHANGED <<k_cfg, k_i, k_lv, k_shared, k_writers, k_early, k_arrived, k_tmp,
                   k_rz, k_out>>
    /\ UNCHANGED <<sizeVars, softmaxVars, strategyVars, transVars, driverVars>>

\* lines 76-78 / 110-112: thread 0 stores 1 / z in the shared reverse_z
WriteReverseZ(t) ==
    /\ k_pc[t] = "write_z"
    /\ IF IsThread0(t)
       THEN /\ k_shared' = [k_shared EXCEPT !.reverse_z = k_z]
            /\ k_writers' = [k_writers EXCEPT !.reverse_z = @ \cup {t}]
       ELSE UNCHANGED <<k_shared, k_writers>>
    /\ k_arrived' = [k_arrived EXCEPT !.z = @ \cup {t}]
    /\ k_pc' = [k_pc EXCEPT ![t] = "sync_z"]
    /\ UNCHANGED <<k_cfg, k_i, k_lv, k_early, k_tmp, k_z, k_rz, k_out>>
    /\ UNCHANGED <<sizeVars, softmaxVars, strategyVars, transVars, driverVars>>

\* lines 79 / 113: __syncthreads()
SyncReverseZ(t) ==
    /\ k_pc[t] = "sync_z"
    /\ syncthreads(k_arrived.z, k_cfg.TPB)
    /\ k_i' = [k_i EXCEPT ![t] = t]
    /\ k_pc' = [k_pc EXCEPT ![t] = "normalize"]
    /\ UNCHANGED <<k_cfg, k_lv, k_shared, k_writers, k_early, k_arrived, k_tmp, k_z,
                   k_rz, k_out>>
    /\ UNCHANGED <<sizeVars, softmaxVars, strategyVars, transVars, driverVars>>

\* does the normalisation statement at column i read reverse_z: softmax
\* reads it for the valid columns only (line 83), softmaxSmall always (117)
ReadsReverseZ(kernel, i, last_valid) ==
    kernel = "maskedSoftmaxKernelSmall" \/ i < last_valid

\* lines 81-85: one iteration of softmax's loop, or its exit;
\* lines 115-118: softmaxSmall's single guarded store to column threadIdx.x
Normalize(t) ==
    /\ k_pc[t] = "normalize"
    /\ IF k_i[t] < k_cfg.ld
       THEN /\ k_out' = [k_out EXCEPT ![k_i[t]] = Append(@, t)]
            /\ IF ReadsReverseZ(k_cfg.kernel, k_i[t], k_lv[t])
               THEN /\ k_rz' = k_rz \cup {t}
                    /\ k_early' = IF k_shared.reverse_z = <<>>
                                  THEN k_early \cup {<<"reverse_z", t>>}
                                  ELSE k_early
               ELSE UNCHANGED <<k_rz, k_early>>
            /\ IF k_cfg.kernel = "maskedSoftmaxKernel"
               THEN /\ k_i' = [k_i EXCEPT ![t] = @ + k_cfg.TPB]
                    /\ UNCHANGED k_pc
               ELSE /\ k_pc' = [k_pc EXCEPT ![t] = "done"]
                    /\ UNCHANGED k_i
       ELSE /\ k_pc' = [k_pc EXCEPT ![t] = "done"]
            /\ UNCHANGED <<k_i, k_out, k_rz, k_early>>
    /\ UNCHANGED <<k_cfg, k_lv, k_shared, k_writers, k_arrived, k_tmp, k_z>>
    /\ UNCHANGED <<sizeVars, softmaxVars, strategyVars, transVars, driverVars>>

NextBlock ==
    \/ \E t \in BlockThreads : WriteLastValid(t)
    \/ \E t \in BlockThreads : SyncMask(t)
    \/ \E t \in BlockThreads : ReadLastValid(t)
    \/ \E t \in BlockThreads : Accumulate(t)
    \/ \E t \in BlockThreads : Deposit(t)
    \/ \E t \in BlockThreads : FinishReduce(t)
    \/ \E t \in BlockThreads : WriteReverseZ(t)
    \/ \E t \in BlockThreads : SyncReverseZ(t)
    \/ \E t \in BlockThreads : Normalize(t)

BlockDone == \A t \in BlockThreads : k_pc[t] = "done"

\* C11: within one softmax block, in every interleaving of its threads: no
\* thread reads the shared last_valid before thread 0 has written it; no
\* thread reads the shared reverse_z before thread 0 has written it from the
\* reduction over the whole block; each shared scalar is written by thread 0
\* only; and each column of the row is written by exactly one thread (at
\* most once while the block runs, exactly once when it has finished).
C11_BlockSynchronised ==
    /\ k_early = {}
    /\ k_rz # {} => k_shared.reverse_z = <<BlockThreads>>
    /\ k_shared.reverse_z # <<>> => k_shared.reverse_z = <<BlockThreads>>
    /\ k_writers.last_valid \subseteq {0}
    /\ k_writers.reverse_z \subseteq {0}
    /\ \A t \in BlockThreads :
          k_pc[t] \in {"accumulate", "reduce", "reducing", "write_z", "sync_z",
                       "normalize", "done"}
              => k_lv[t] = Min(k_cfg.ld, k_cfg.mask)
    /\ \A c \in 0..(k_cfg.ld - 1) : Len(k_out[c]) <= 1
    /\ BlockDone => \A c \in 0..(k_cfg.ld - 1) : Len(k_out[c]) = 1

C11_Witness ==
    /\ BlockDone
    /\ k_cfg.kernel = "maskedSoftmaxKernel"
    /\ k_cfg.TPB = 2 /\ k_cfg.ld = 3 /\ k_cfg.mask = 2
    /\ k_rz = {0, 1}
    /\ k_out[2] = <<0>> /\ k_out[1] = <<1>>
    /\ k_writers = [last_valid |-> {0}, reverse_z |-> {0}]

(***************************************************************************)
(* Specifications.                                                         *)
(***************************************************************************)
SpecSize == InitSize /\ [][NextSize]_vars

SpecSoftmax == InitSoftmax /\ [][NextSoftmax]_vars

SpecStrategy == InitStrategy /\ [][NextStrategy]_vars

SpecTrans == InitTrans /\ [][NextTrans]_vars

Spec == Init /\ [][NextDriver]_vars

SpecStages == InitStages /\ [][NextDriver]_vars

SpecBlock == InitBlock /\ [][NextBlock]_vars
=============================================================================
